---- MODULE Spec2Model ----
(***************************************************************************)
(* The AApp document-store HTTP service (src/unnamed/part_000): five       *)
(* collections kept as JSON files, generic CRUD routes and the domain      *)
(* routes, with every handler cut at its awaits.  Code between two awaits  *)
(* runs without interruption on the single JavaScript thread, so one       *)
(* action is one such stretch of a handler.                                *)
(***************************************************************************)
EXTENDS Naturals, Sequences, FiniteSets, TLC

VARIABLES files, fstate, req, nextId

vars == <<files, fstate, req, nextId>>

(* ------------------------------ bounds --------------------------------- *)

\* Requests the clients send in one run.
MaxRequests == 3

\* Requests that may be between their arrival and their response at once.
MaxInFlight == 2

(* --------------------------- JavaScript values ------------------------- *)

\* An object with no fields ({}).
NoFields == [f \in {} |-> ""]

\* obj[f] is not undefined.
Has(obj, f) == f \in DOMAIN obj

\* { ...a, ...b }: the fields of b overwrite the same-named fields of a.
Spread(a, b) ==
  [f \in (DOMAIN a) \cup (DOMAIN b) |-> IF f \in DOMAIN b THEN b[f] ELSE a[f]]

\* obj without field f: what JSON.stringify keeps of an object whose field f
\* was assigned undefined.
Omit(obj, f) == [g \in (DOMAIN obj) \ {f} |-> obj[g]]

\* obj.f = value taken from body.f, which may be undefined.
AssignFrom(obj, f, body) ==
  IF Has(body, f) THEN Spread(obj, [g \in {f} |-> body[f]]) ELSE Omit(obj, f)

\* obj.f || []
OrEmpty(obj, f) == IF Has(obj, f) THEN obj[f] ELSE <<>>

\* array.includes(x)
Includes(array, x) == \E i \in DOMAIN array : array[i] = x

\* array.filter(e => e !== x)
Without(array, x) == SelectSeq(array, LAMBDA e : e /= x)

\* docs.findIndex(d => d.id == id), 0 standing for -1.
findIndex(docs, id) ==
  LET hits == {i \in DOMAIN docs : Has(docs[i], "id") /\ docs[i].id = id}
  IN  IF hits = {} THEN 0 ELSE CHOOSE i \in hits : \A j \in hits : i <= j

\* The value of an absent body field used as an id: it equals no stored id.
Undefined == "undefined"

Field(body, f) == IF Has(body, f) THEN body[f] ELSE Undefined

(* ------------------------------ storage -------------------------------- *)

allowed == {"users", "ads", "posts", "notifications", "reports"}

\* getFilePath without its check of the name.
getFilePathThrows_never(collection) == FALSE

\* getFilePath throws 'Invalid collection' for a name outside the list.
getFilePathThrows(collection) == collection \notin allowed

\* The ids generateId hands out, in order: a random part and a time part,
\* taken as never repeating.
IdNames == <<"id1", "id2", "id3", "id4", "id5", "id6", "id7", "id8">>

generateId(n) == IdNames[n]

\* new Date().toISOString() when the n-th document is made.
toISOString(n) == n

(* ------------------------------ routing -------------------------------- *)

ParamNames == {":collection", ":id"}

\* The routes in the order app.get/post/patch/delete registers them.
Routes == <<
  [method |-> "GET",    path |-> <<>>,                          handler |-> "root"],
  [method |-> "GET",    path |-> <<"health">>,                  handler |-> "health"],
  [method |-> "GET",    path |-> <<":collection">>,             handler |-> "list"],
  [method |-> "GET",    path |-> <<":collection", ":id">>,      handler |-> "get"],
  [method |-> "POST",   path |-> <<":collection">>,             handler |-> "insert"],
  [method |-> "PATCH",  path |-> <<":collection", ":id">>,      handler |-> "patch"],
  [method |-> "DELETE", path |-> <<":collection", ":id">>,      handler |-> "delete"],
  [method |-> "POST",   path |-> <<"users", "toggle-follow">>,  handler |-> "toggleFollow"],
  [method |-> "POST",   path |-> <<"signup">>,                  handler |-> "signup"],
  [method |-> "POST",   path |-> <<"login">>,                   handler |-> "login"],
  [method |-> "POST",   path |-> <<"reports">>,                 handler |-> "submitReport"],
  [method |-> "PATCH",  path |-> <<"ads", ":id", "approval">>,  handler |-> "adApproval"],
  [method |-> "PATCH",  path |-> <<"users", ":id", "approval">>, handler |-> "userApproval"],
  [method |-> "PATCH",  path |-> <<"users", ":id", "block">>,   handler |-> "userBlock"],
  [method |-> "PATCH",  path |-> <<"reports", ":id", "resolve">>, handler |-> "resolveReport"] >>

\* A route's path matches a request path segment by segment.
Matches(pattern, path) ==
  /\ Len(pattern) = Len(path)
  /\ \A i \in DOMAIN pattern : pattern[i] \in ParamNames \/ pattern[i] = path[i]

\* req.params[name] under a matching pattern ("" when the route has no such parameter).
Param(pattern, path, name) ==
  IF \E i \in DOMAIN pattern : pattern[i] = name
  THEN path[CHOOSE i \in DOMAIN pattern : pattern[i] = name]
  ELSE ""

\* Express runs the first registered route that matches; the handlers here
\* never call next(), so no later route sees the request.
Dispatch(method, path) ==
  LET hits == {i \in DOMAIN Routes :
                 Routes[i].method = method /\ Matches(Routes[i].path, path)}
  IN  IF hits = {}
      THEN [handler |-> "none", collection |-> "", id |-> ""]
      ELSE LET i == CHOOSE k \in hits : \A j \in hits : k <= j
           IN  [handler    |-> Routes[i].handler,
                collection |-> Param(Routes[i].path, path, ":collection"),
                id         |-> Param(Routes[i].path, path, ":id")]

(* ------------------------- what a handler does next -------------------- *)

\* res.status(status).json(...): the handler is over.
Respond(status) ==
  [pc |-> "done", status |-> status, docs |-> <<>>, made |-> 0, caught |-> "",
   result |-> <<>>]

\* catch (err) { res.status(400).json({ error: err.message }) }
Caught(message) ==
  [pc |-> "done", status |-> 400, docs |-> <<>>, made |-> 0, caught |-> message,
   result |-> <<>>]

\* await writeCollection(<the collection read>, docs) is started; made is the
\* number of ids generateId() produced on the way.
StartWrite(docs, made) ==
  [pc |-> "write", status |-> 0, docs |-> docs, made |-> made, caught |-> "",
   result |-> <<>>]

\* await readCollection('notifications') is started by the like branch.
StartNotifications(docs) ==
  [pc |-> "readNotif", status |-> 0, docs |-> docs, made |-> 0, caught |-> "",
   result |-> <<>>]

(* ------------------------------ handlers -------------------------------- *)
(* Each operator is the stretch of a handler that runs once its first      *)
(* readCollection has resolved to docs; n is the number of the next        *)
(* generated id.                                                           *)

\* The number a numeric string stands for when == compares it with a number
\* (the empty string stands for 0; a string outside the table stands for NaN
\* or for a number no document here holds).
ToNumber == [s \in {"", "0", "1", "2"} |->
               IF s = "1" THEN 1 ELSE IF s = "2" THEN 2 ELSE 0]

\* The document fields that hold numbers; the others filtered on hold strings.
NumberFields == {"likesCount"}

\* doc[key] == val for a query value val, which is a string: undefined equals
\* no string, a number equals the strings that convert to it, a string equals
\* itself.
LooseEquals(doc, key, val) ==
  /\ Has(doc, key)
  /\ IF key \in NumberFields
     THEN val \in DOMAIN ToNumber /\ doc[key] = ToNumber[val]
     ELSE doc[key] = val

\* Object.entries(query).forEach(... docs = docs.filter(...)): one filter pass
\* for each of the keys.
RECURSIVE filtered(_, _, _)
filtered(docs, query, keys) ==
  IF keys = {} THEN docs
  ELSE LET key == CHOOSE k \in keys : TRUE
       IN  filtered(SelectSeq(docs, LAMBDA doc : LooseEquals(doc, key, query[key])),
                    query, keys \ {key})

\* res.json(result)
Send(result) ==
  [pc |-> "done", status |-> 200, docs |-> <<>>, made |-> 0, caught |-> "",
   result |-> result]

\* list keeping also the documents that lack the filter field.
list_keepLacking(docs, query) ==
  Send(SelectSeq(docs, LAMBDA doc :
         \A key \in DOMAIN query :
           ~Has(doc, key) \/ LooseEquals(doc, key, query[key])))

\* GET /:collection
list(docs, query) == Send(filtered(docs, query, DOMAIN query))

\* get returning from the not-found branch without sending a response.
get_silent(docs, id) ==
  IF findIndex(docs, id) = 0
  THEN [pc |-> "returned", status |-> 0, docs |-> <<>>, made |-> 0, caught |-> "",
        result |-> <<>>]
  ELSE Respond(200)

\* GET /:collection/:id
get(docs, id) ==
  IF findIndex(docs, id) = 0 THEN Respond(404) ELSE Respond(200)

\* POST /:collection
insert(docs, body, n) ==
  LET newDoc == Spread(body, [id |-> generateId(n), createdAt |-> toISOString(n)])
  IN  StartWrite(Append(docs, newDoc), 1)

\* The like branch is taken for posts and ads when body.likers is truthy
\* (every array is, the empty one included).
likeBranch(collection, body) ==
  collection \in {"posts", "ads"} /\ Has(body, "likers")

\* patch with the regular update storing the body in place of the document
\* (docs[idx] = req.body).
patch_replace(docs, collection, id, body) ==
  LET idx == findIndex(docs, id)
  IN  IF idx = 0 THEN Respond(404)
      ELSE IF likeBranch(collection, body)
      THEN StartNotifications(
             [docs EXCEPT ![idx] =
                Spread(@, [likers |-> body.likers, likesCount |-> Len(body.likers)])])
      ELSE StartWrite([docs EXCEPT ![idx] = body], 0)

\* PATCH /:collection/:id
patch(docs, collection, id, body) ==
  LET idx == findIndex(docs, id)
  IN  IF idx = 0 THEN Respond(404)
      ELSE IF likeBranch(collection, body)
      THEN StartNotifications(
             [docs EXCEPT ![idx] =
                Spread(@, [likers |-> body.likers, likesCount |-> Len(body.likers)])])
      ELSE StartWrite([docs EXCEPT ![idx] = Spread(@, body)], 0)

\* The notification the like branch pushes once notifications are read.
likeNotification(collection, id, body, n) ==
  [id         |-> generateId(n),
   type       |-> "like",
   collection |-> collection,
   targetId   |-> id,
   likerId    |-> IF Has(body, "likerId") /\ body.likerId /= "" THEN body.likerId ELSE "null",
   createdAt  |-> toISOString(n),
   message    |-> IF collection = "posts" THEN "like:post" ELSE "like:ad"]

\* likeOrder with the two writes exchanged: the target collection is written
\* before notifications.
likeOrder_targetFirst == <<"readNotif", "write", "writeNotif", "done">>

\* The awaits of the like branch after the target collection is read, in
\* program order: read notifications, write notifications, write the target.
likeOrder == <<"readNotif", "writeNotif", "write", "done">>

\* DELETE /:collection/:id
delete(docs, id) ==
  LET idx == findIndex(docs, id)
  IN  IF idx = 0 THEN Respond(404)
      ELSE StartWrite(SubSeq(docs, 1, idx - 1) \o SubSeq(docs, idx + 1, Len(docs)), 0)

\* toggleFollow answering 404 only when both users are missing (&& for ||).
toggleFollow_bothMissing(users, body) ==
  LET followerId  == Field(body, "followerId")
      followingId == Field(body, "followingId")
      fi == findIndex(users, followerId)
      gi == findIndex(users, followingId)
      u1 == IF fi = 0 THEN users
            ELSE [users EXCEPT ![fi] = Spread(@, [following |-> OrEmpty(@, "following")])]
      u2 == IF gi = 0 THEN u1
            ELSE [u1 EXCEPT ![gi] = Spread(@, [followers |-> OrEmpty(@, "followers")])]
  IN  IF fi = 0 /\ gi = 0 THEN Respond(404)
      ELSE StartWrite(u2, 0)

\* toggleFollow deciding each side from its own list (a second includes test
\* for following.followers).
toggleFollow_eachSide(users, body) ==
  LET followerId  == Field(body, "followerId")
      followingId == Field(body, "followingId")
      fi == findIndex(users, followerId)
      gi == findIndex(users, followingId)
      u1 == [users EXCEPT ![fi] = Spread(@, [following |-> OrEmpty(@, "following")])]
      u2 == [u1 EXCEPT ![gi] = Spread(@, [followers |-> OrEmpty(@, "followers")])]
      a  == IF ~Includes(u2[fi].following, followingId)
            THEN [u2 EXCEPT ![fi].following = Append(@, followingId)]
            ELSE [u2 EXCEPT ![fi].following = Without(@, followingId)]
      b  == IF ~Includes(a[gi].followers, followerId)
            THEN [a EXCEPT ![gi].followers = Append(@, followerId)]
            ELSE [a EXCEPT ![gi].followers = Without(@, followerId)]
  IN  IF fi = 0 \/ gi = 0 THEN Respond(404)
      ELSE StartWrite(b, 0)

\* POST /users/toggle-follow.  follower and following are references into
\* users, the same object when both ids are equal.
toggleFollow(users, body) ==
  LET followerId  == Field(body, "followerId")
      followingId == Field(body, "followingId")
      fi == findIndex(users, followerId)
      gi == findIndex(users, followingId)
      u1 == [users EXCEPT ![fi] = Spread(@, [following |-> OrEmpty(@, "following")])]
      u2 == [u1 EXCEPT ![gi] = Spread(@, [followers |-> OrEmpty(@, "followers")])]
      follow ==
        LET a == [u2 EXCEPT ![fi].following = Append(@, followingId)]
        IN  [a EXCEPT ![gi].followers = Append(@, followerId)]
      unfollow ==
        LET a == [u2 EXCEPT ![fi].following = Without(@, followingId)]
        IN  [a EXCEPT ![gi].followers = Without(@, followerId)]
  IN  IF fi = 0 \/ gi = 0 THEN Respond(404)
      ELSE IF ~Includes(u2[fi].following, followingId)
      THEN StartWrite(follow, 0)
      ELSE StartWrite(unfollow, 0)

\* POST /signup: !username || !password, checked before anything is read.
signupInvalid(body) ==
  \/ ~Has(body, "username") \/ ~Has(body, "password")
  \/ body.username = "" \/ body.password = ""

\* POST /signup once users is read.
signup(users, body, n) ==
  IF \E i \in DOMAIN users : Has(users[i], "username") /\ users[i].username = body.username
  THEN Respond(400)
  ELSE LET user == Spread(body,
                     [id             |-> generateId(n),
                      createdAt      |-> toISOString(n),
                      approvalStatus |-> "pending",
                      isBlocked      |-> FALSE,
                      followers      |-> <<>>,
                      following      |-> <<>>])
       IN  StartWrite(Append(users, user), 1)

\* POST /login
login(users, body) ==
  IF \E i \in DOMAIN users :
       /\ Has(users[i], "username") /\ Has(body, "username")
       /\ users[i].username = body.username
       /\ Has(users[i], "password") /\ Has(body, "password")
       /\ users[i].password = body.password
  THEN Respond(200)
  ELSE Respond(401)

\* POST /reports
submitReport(reports, body, n) ==
  LET report == Spread(body,
                  [id |-> generateId(n), createdAt |-> toISOString(n), status |-> "new"])
  IN  StartWrite(Append(reports, report), 1)

\* PATCH /ads/:id/approval, /users/:id/approval, /users/:id/block: one field
\* of the document is assigned from the same-named body field.
setField(docs, id, f, body) ==
  LET idx == findIndex(docs, id)
  IN  IF idx = 0 THEN Respond(404)
      ELSE StartWrite([docs EXCEPT ![idx] = AssignFrom(@, f, body)], 0)

\* PATCH /reports/:id/resolve
resolveReport(reports, id) ==
  LET idx == findIndex(reports, id)
  IN  IF idx = 0 THEN Respond(404)
      ELSE StartWrite([reports EXCEPT ![idx] = Spread(@, [status |-> "resolved"])], 0)

\* The collection a handler reads first.
firstRead(handler, collection) ==
  CASE handler \in {"list", "get", "insert", "patch", "delete"} -> collection
    [] handler \in {"toggleFollow", "signup", "login", "userApproval", "userBlock"} -> "users"
    [] handler \in {"submitReport", "resolveReport"} -> "reports"
    [] handler = "adApproval" -> "ads"
    [] OTHER -> ""

\* The handler's code from the resolution of its first read to its next await
\* or its response.
afterRead(q, docs, n) ==
  CASE q.handler = "list"          -> list(docs, q.query)
    [] q.handler = "get"           -> get(docs, q.id)
    [] q.handler = "insert"        -> insert(docs, q.body, n)
    [] q.handler = "patch"         -> patch(docs, q.collection, q.id, q.body)
    [] q.handler = "delete"        -> delete(docs, q.id)
    [] q.handler = "toggleFollow"  -> toggleFollow(docs, q.body)
    [] q.handler = "signup"        -> signup(docs, q.body, n)
    [] q.handler = "login"         -> login(docs, q.body)
    [] q.handler = "submitReport"  -> submitReport(docs, q.body, n)
    [] q.handler = "adApproval"    -> setField(docs, q.id, "status", q.body)
    [] q.handler = "userApproval"  -> setField(docs, q.id, "approvalStatus", q.body)
    [] q.handler = "userBlock"     -> setField(docs, q.id, "isBlocked", q.body)
    [] q.handler = "resolveReport" -> resolveReport(docs, q.id)

\* The status of the response a handler sends after its last write.
written(handler) ==
  IF handler \in {"insert", "signup", "submitReport"} THEN 201 ELSE 200

(* ------------------------------ requests -------------------------------- *)

Req == 1 .. MaxRequests

Request(method, path, body) ==
  [method |-> method, path |-> path, body |-> body, query |-> NoFields]

\* GET path?query
Get(path, query) ==
  [method |-> "GET", path |-> path, body |-> NoFields, query |-> query]

\* Work on posts: inserts, a plain patch and a delete.
PostRequests ==
  { Request("POST",   <<"posts">>, [text |-> "a"]),
    Request("POST",   <<"posts">>, [text |-> "b"]),
    Request("PATCH",  <<"posts", "id1">>, [text |-> "d"]),
    Request("DELETE", <<"posts", "id1">>, NoFields) }

\* Likes on posts: an insert and like updates.
LikeRequests ==
  { Request("POST",   <<"posts">>, [text |-> "a"]),
    Request("PATCH",  <<"posts", "id1">>, [likers |-> <<"u1", "u2">>, likerId |-> "u1"]),
    Request("PATCH",  <<"posts", "id1">>, [likers |-> <<"u2">>]) }

\* Work on ads: insert, like update and the approval route.
AdRequests ==
  { Request("POST",  <<"ads">>, [text |-> "a"]),
    Request("PATCH", <<"ads", "id1">>, [likers |-> <<"u1">>]),
    Request("PATCH", <<"ads", "id1">>, [id |-> "id2", createdAt |-> 0]),
    Request("PATCH", <<"ads", "id1", "approval">>, [status |-> "approved"]),
    Request("PATCH", <<"ads", "id1", "approval">>, NoFields),
    Request("GET",   <<"ads", "id1">>, NoFields) }

\* Work on users: generic inserts and follow toggles.
UserRequests ==
  { Request("POST",  <<"users">>, [username |-> "a"]),
    Request("POST",  <<"users">>, [username |-> "b"]),
    Request("POST",  <<"users", "toggle-follow">>, [followerId |-> "id1", followingId |-> "id2"]),
    Request("POST",  <<"users", "toggle-follow">>, [followerId |-> "id1", followingId |-> "id1"]) }

\* Users changed by a generic patch and by the moderation routes.
ModerationRequests ==
  { Request("POST",  <<"users">>, [username |-> "a"]),
    Request("PATCH", <<"users", "id1">>, [following |-> <<"id2">>]),
    Request("PATCH", <<"users", "id1", "block">>, [isBlocked |-> TRUE]),
    Request("PATCH", <<"users", "id2", "approval">>, [approvalStatus |-> "approved"]) }

\* Users stored with a follow link on one side, on both sides or on neither,
\* and a toggle of that link.
LinkRequests ==
  { Request("POST", <<"users">>, [following |-> <<"id2">>]),
    Request("POST", <<"users">>, [followers |-> <<"id1">>]),
    Request("POST", <<"users", "toggle-follow">>, [followerId |-> "id1", followingId |-> "id2"]) }

\* Lists of posts with two filters over posts that match, differ in a field
\* or lack one (lists without filters are in the sets below).
ListRequests ==
  { Request("POST", <<"posts">>, [text |-> "a", likesCount |-> 0]),
    Request("POST", <<"posts">>, [text |-> "c", likers |-> <<"u1">>, likesCount |-> 0]),
    Request("POST", <<"posts">>, [text |-> "a"]),
    Get(<<"posts">>, [likesCount |-> "0", text |-> "a"]) }

\* Accounts: signup, login and a generic insert into users.
AccountRequests ==
  { Request("POST", <<"signup">>, [username |-> "a", password |-> "p"]),
    Request("POST", <<"signup">>, [username |-> "a", password |-> "q"]),
    Request("POST", <<"signup">>, [username |-> "a", password |-> ""]),
    Request("POST", <<"login">>,  [username |-> "a", password |-> "p"]),
    Request("POST", <<"users">>,  [username |-> "a", password |-> "p"]),
    Request("GET",  <<"users">>,  NoFields) }

\* Reports: submissions with and without a status of their own, resolution.
ReportRequests ==
  { Request("POST",   <<"reports">>, [reason |-> "r"]),
    Request("POST",   <<"reports">>, [reason |-> "r", status |-> "resolved"]),
    Request("PATCH",  <<"reports", "id1", "resolve">>, NoFields),
    Get(<<"reports">>, [reason |-> "r"]) }

\* Requests outside the five collections and outside the routes.
OtherRequests ==
  { Request("GET",    <<>>, NoFields),
    Request("GET",    <<"health">>, NoFields),
    Request("GET",    <<"other">>, NoFields),
    Request("GET",    <<"other", "id1">>, NoFields),
    Request("POST",   <<"other">>, [text |-> "a"]),
    Request("PATCH",  <<"other", "id1">>, [text |-> "a"]),
    Request("DELETE", <<"other", "id1">>, NoFields),
    Request("DELETE", <<"posts">>, NoFields),
    Request("POST",   <<"notifications">>, [type |-> "like"]) }

\* One run draws its requests from one of these sets.
Workloads ==
  {PostRequests, LikeRequests, AdRequests, UserRequests, ModerationRequests,
   LinkRequests, ListRequests, AccountRequests, ReportRequests, OtherRequests}

\* A request slot before its request arrives.
Idle ==
  [pc |-> "new", method |-> "", path |-> <<>>, body |-> NoFields,
   query |-> NoFields, result |-> <<>>,
   handler |-> "", collection |-> "", id |-> "",
   docs |-> <<>>, notifications |-> <<>>, status |-> 0, caught |-> "",
   opened |-> FALSE, wrote |-> {}, alone |-> FALSE]

Arrived(r) == req[r].pc /= "new"

InFlight(r) == req[r].pc \notin {"new", "done"}

InputOf(r) ==
  [method |-> req[r].method, path |-> req[r].path, body |-> req[r].body,
   query |-> req[r].query]

(* ------------------------------- actions -------------------------------- *)

Init ==
  /\ files = [c \in allowed |-> <<>>]
  /\ fstate = [c \in allowed |-> "ok"]
  /\ req = [r \in Req |-> Idle]
  /\ nextId = 1

\* The handler's code up to its first await, for a request dispatched to
\* d.handler: no route matched (Express answers 404), the root and health
\* routes, signup's validation, a readCollection that throws at once into the
\* handler's catch, or a read that is started.
start(d, body) ==
  IF d.handler = "none" THEN Respond(404)
  ELSE IF d.handler \in {"root", "health"} THEN Respond(200)
  ELSE IF d.handler = "signup" /\ signupInvalid(body) THEN Respond(400)
  ELSE IF getFilePathThrows(firstRead(d.handler, d.collection))
       THEN Caught("Invalid collection")
  ELSE [pc |-> "read", status |-> 0, docs |-> <<>>, made |-> 0, caught |-> "",
        result |-> <<>>]

\* A request arrives, is dispatched and runs to its first await.
Accept(r) ==
  /\ req[r].pc = "new"
  /\ r > 1 => Arrived(r - 1)
  /\ Cardinality({q \in Req : InFlight(q)}) < MaxInFlight
  /\ \E w \in Workloads : \E in \in w :
       /\ \A q \in Req : Arrived(q) => InputOf(q) \in w
       /\ LET d == Dispatch(in.method, in.path)
              s == start(d, in.body)
          IN  req' = [req EXCEPT ![r] =
                [pc |-> s.pc, method |-> in.method, path |-> in.path, body |-> in.body,
                 query |-> in.query, result |-> s.result,
                 handler |-> d.handler, collection |-> d.collection, id |-> d.id,
                 docs |-> <<>>, notifications |-> <<>>, status |-> s.status,
                 caught |-> s.caught, opened |-> FALSE,
                 wrote |-> {}, alone |-> (\A q \in Req : ~InFlight(q))]]
  /\ UNCHANGED <<files, fstate, nextId>>

\* readCollection: JSON.parse of the file's content (a file never written
\* reads as []).
readCollection(collection) == files[collection]

\* JSON.parse throws in readCollection: the file is zero-length or holds the
\* mixed text of two writes, and the error is no ENOENT.
readThrows(collection) == fstate[collection] /= "ok"

SyntaxError == "SyntaxError"

\* The first readCollection of a handler resolves or throws; the handler runs
\* on to its next await or its response.
ReadDone(r) ==
  /\ req[r].pc = "read"
  /\ LET c == firstRead(req[r].handler, req[r].collection)
         s == IF readThrows(c) THEN Caught(SyntaxError)
              ELSE afterRead(req[r], readCollection(c), nextId)
     IN  /\ req' = [req EXCEPT ![r].pc = s.pc, ![r].status = s.status,
                               ![r].docs = s.docs, ![r].caught = s.caught,
                               ![r].result = s.result]
         /\ nextId' = nextId + s.made
  /\ UNCHANGED <<files, fstate>>

\* The pc after pc in the like branch.
likeNext(pc) ==
  likeOrder[1 + CHOOSE i \in DOMAIN likeOrder : likeOrder[i] = pc]

\* Like branch: readCollection('notifications') resolves, the notification is
\* pushed and the next await starts.
NotifReadDone(r) ==
  /\ req[r].pc = "readNotif"
  /\ IF readThrows("notifications")
     THEN /\ req' = [req EXCEPT ![r].pc = "done", ![r].status = 400,
                                ![r].caught = SyntaxError, ![r].docs = <<>>]
          /\ nextId' = nextId
     ELSE /\ req' = [req EXCEPT
               ![r].notifications =
                  Append(readCollection("notifications"),
                         likeNotification(req[r].collection, req[r].id, req[r].body, nextId)),
               ![r].pc = likeNext("readNotif")]
          /\ nextId' = nextId + 1
  /\ UNCHANGED <<files, fstate>>

\* The request's state once a writeCollection it awaited has resolved and the
\* handler has moved to pc.
resumed(q, collection, pc) ==
  [q EXCEPT !.pc = pc,
            !.opened = FALSE,
            !.wrote = @ \cup {collection},
            !.status = IF pc = "done" THEN written(q.handler) ELSE 0,
            !.docs = IF pc = "done" THEN <<>> ELSE @,
            !.notifications = IF pc = "done" THEN <<>> ELSE @]

\* The collection the writeCollection a request awaits is writing.
writing(q) ==
  IF q.pc = "writeNotif" THEN "notifications" ELSE firstRead(q.handler, q.collection)

\* fs.writeFile opens the file with flag 'w', which truncates it: until the
\* data is written the file is zero-length.
OpenDone(r) ==
  /\ req[r].pc \in {"write", "writeNotif"}
  /\ ~req[r].opened
  /\ files' = [files EXCEPT ![writing(req[r])] = <<>>]
  /\ fstate' = [fstate EXCEPT ![writing(req[r])] = "empty"]
  /\ req' = [req EXCEPT ![r].opened = TRUE]
  /\ UNCHANGED nextId

\* writeCollection: the file's content once fs.writeFile of
\* JSON.stringify(data) has resolved.
writeCollection(collection, data) == [files EXCEPT ![collection] = data]

\* The states the file may be in once the data is written from offset 0: the
\* complete text, or, when another write has put text into the file since
\* this one truncated it, that text's tail after the new one.
writeOutcomes(collection) ==
  IF fstate[collection] = "empty" THEN {"ok"} ELSE {"ok", "mixed"}

\* The file after a write of data that ends in state st.
written_file(collection, data, st) ==
  IF st = "ok" THEN writeCollection(collection, data)
  ELSE [files EXCEPT ![collection] = <<>>]

\* Like branch: writeCollection('notifications', notifications) resolves.
NotifWriteDone(r) ==
  /\ req[r].pc = "writeNotif"
  /\ req[r].opened
  /\ \E st \in writeOutcomes("notifications") :
       /\ files' = written_file("notifications", req[r].notifications, st)
       /\ fstate' = [fstate EXCEPT !["notifications"] = st]
  /\ req' = [req EXCEPT ![r] = resumed(@, "notifications", likeNext("writeNotif"))]
  /\ UNCHANGED nextId

\* writeCollection(collection, docs) of the collection the handler read first
\* resolves.
WriteDone(r) ==
  /\ req[r].pc = "write"
  /\ req[r].opened
  /\ LET c == firstRead(req[r].handler, req[r].collection)
         pc == IF req[r].handler = "patch" /\ likeBranch(req[r].collection, req[r].body)
               THEN likeNext("write") ELSE "done"
     IN  /\ \E st \in writeOutcomes(c) :
              /\ files' = written_file(c, req[r].docs, st)
              /\ fstate' = [fstate EXCEPT ![c] = st]
         /\ req' = [req EXCEPT ![r] = resumed(@, c, pc)]
  /\ UNCHANGED nextId

Next ==
  \E r \in Req :
    \/ Accept(r)
    \/ ReadDone(r)
    \/ NotifReadDone(r)
    \/ OpenDone(r)
    \/ NotifWriteDone(r)
    \/ WriteDone(r)

Spec == Init /\ [][Next]_vars

\* The storage operations a handler awaits complete: each pending read, open
\* and write of each request is taken if it stays possible.
IOFair ==
  \A r \in Req :
    /\ WF_vars(ReadDone(r))
    /\ WF_vars(NotifReadDone(r))
    /\ WF_vars(OpenDone(r))
    /\ WF_vars(NotifWriteDone(r))
    /\ WF_vars(WriteDone(r))

LiveSpec == Init /\ [][Next]_vars /\ IOFair

(* ------------------------------- claims --------------------------------- *)

AllDone == \A r \in Req : ~InFlight(r)

IsLike(r) ==
  /\ Arrived(r)
  /\ req[r].handler = "patch"
  /\ likeBranch(req[r].collection, req[r].body)

IsToggle(r) == Arrived(r) /\ req[r].handler = "toggleFollow"

\* The request has read collection c, means to write it and has not yet.
InSpan(r, c) ==
  /\ c \notin req[r].wrote
  /\ \/ /\ c = firstRead(req[r].handler, req[r].collection)
        /\ req[r].pc \in {"readNotif", "writeNotif", "write"}
     \/ /\ c = "notifications"
        /\ IsLike(r)
        /\ req[r].pc \in {"writeNotif", "write"}

\* C1: when all the requests of a run are generic inserts with distinct bodies
\* into one collection and all have been answered 201, the collection holds
\* one document per request.
C1_NoInsertLost ==
  \A c \in allowed :
    ( /\ \A r \in Req : Arrived(r) =>
            /\ req[r].handler = "insert" /\ req[r].collection = c
            /\ req[r].pc = "done" /\ req[r].status = 201
      /\ \A r, q \in Req : Arrived(r) /\ Arrived(q) /\ r /= q => req[r].body /= req[q].body )
    => Len(files[c]) = Cardinality({r \in Req : Arrived(r)})

\* C2: no two requests are at once between their read and their write of the
\* same collection.
C2_MutualExclusion ==
  \A c \in allowed : \A r, q \in Req :
    r /= q => ~(InSpan(r, c) /\ InSpan(q, c))

\* C3: for all stored users a and b, b.id is in a.following exactly when a.id
\* is in b.followers.
C3_FollowSymmetric ==
  LET users == files["users"]
  IN  \A i, j \in DOMAIN users :
        Includes(OrEmpty(users[i], "following"), users[j].id)
          <=> Includes(OrEmpty(users[j], "followers"), users[i].id)

\* C4: two toggle-follows with the same ids, sent to users that generic
\* inserts stored without any follow link and that nothing else touches, leave
\* every user's followers and following empty again once both are answered
\* 200, whether the two ran one after the other or overlapped.
C4_DoubleToggleRestores ==
  \A r1, r2 \in Req :
    ( /\ r1 < r2 /\ IsToggle(r1) /\ IsToggle(r2)
      /\ req[r1].body = req[r2].body
      /\ req[r1].alone
      /\ req[r1].pc = "done" /\ req[r1].status = 200
      /\ req[r2].pc = "done" /\ req[r2].status = 200
      /\ \A q \in Req \ {r1, r2} : Arrived(q) =>
            /\ q < r1
            /\ req[q].handler = "insert" /\ req[q].collection = "users"
            /\ ~Has(req[q].body, "followers") /\ ~Has(req[q].body, "following") )
    => \A i \in DOMAIN files["users"] :
         /\ OrEmpty(files["users"][i], "following") = <<>>
         /\ OrEmpty(files["users"][i], "followers") = <<>>

\* C5: every stored post or ad that has likers has likesCount = |likers|.
C5_LikesCountIsSize ==
  \A c \in {"posts", "ads"} : \A i \in DOMAIN files[c] :
    Has(files[c][i], "likers") =>
      /\ Has(files[c][i], "likesCount")
      /\ files[c][i].likesCount = Len(files[c][i].likers)

\* C6: when every request is answered and nothing but like updates has dealt
\* with notifications, notifications holds one document per like update
\* answered 200, and for each of them a notification of type like naming its
\* target id and collection.
C6_OneNotificationPerLike ==
  LET likes == {r \in Req : IsLike(r) /\ req[r].pc = "done" /\ req[r].status = 200}
      notes == files["notifications"]
  IN  ( /\ AllDone
        /\ \A r \in Req : Arrived(r) =>
              firstRead(req[r].handler, req[r].collection) /= "notifications" )
      => /\ Len(notes) = Cardinality(likes)
         /\ \A r \in likes : \E i \in DOMAIN notes :
              /\ notes[i].type = "like"
              /\ notes[i].targetId = req[r].id
              /\ notes[i].collection = req[r].collection

\* C7 as claimed: a like update that has written notifications has written
\* its target collection before.
C7_TargetWrittenFirst ==
  \A r \in Req : IsLike(r) =>
    ("notifications" \in req[r].wrote => req[r].collection \in req[r].wrote)

\* C7 as amended: a like update writes notifications before its target
\* collection: one that has written its target collection has written
\* notifications before.
C7_NotificationsWrittenFirst ==
  \A r \in Req : IsLike(r) =>
    (req[r].collection \in req[r].wrote => "notifications" \in req[r].wrote)

\* A like update stopped between its two writes: its notification is stored
\* and the stored target document has not got the likers of the request.
C7_BetweenWrites ==
  \E r \in Req :
    /\ IsLike(r)
    /\ req[r].wrote = {"notifications"}
    /\ req[r].pc = "write"
    /\ \E i \in DOMAIN files["notifications"] :
         /\ files["notifications"][i].type = "like"
         /\ files["notifications"][i].targetId = req[r].id
    /\ \E i \in DOMAIN files[req[r].collection] :
         /\ files[req[r].collection][i].id = req[r].id
         /\ ~Has(files[req[r].collection][i], "likers")

\* C8: no two stored users have the same username.
C8_UsernameUnique ==
  LET users == files["users"]
  IN  \A i, j \in DOMAIN users :
        (i /= j /\ Has(users[i], "username") /\ Has(users[j], "username"))
          => users[i].username /= users[j].username

\* C9: a POST /signup with non-empty username and password, answered while
\* no request before it had written anything, is answered 201 and has stored
\* its user as pending, unblocked and without links.
C9_SignupCreated ==
  \A r \in Req :
    ( /\ req[r].pc = "done"
      /\ req[r].method = "POST" /\ req[r].path = <<"signup">>
      /\ ~signupInvalid(req[r].body)
      /\ \A q \in Req : q /= r => req[q].wrote = {} )
    => /\ req[r].status = 201
       /\ \E i \in DOMAIN files["users"] :
            /\ Field(files["users"][i], "username") = req[r].body.username
            /\ Field(files["users"][i], "approvalStatus") = "pending"

\* C10: as long as only POST requests have arrived, every stored report has
\* status 'new'.
C10_ReportStatusNew ==
  (\A r \in Req : Arrived(r) => req[r].method = "POST")
    => \A i \in DOMAIN files["reports"] :
         Field(files["reports"][i], "status") = "new"

\* C11: in every collection the stored ids are pairwise different, and every
\* stored document has the id and the createdAt that were generated for it
\* when it was inserted.
C11_IdsUniqueImmutable ==
  \A c \in allowed :
    /\ \A i, j \in DOMAIN files[c] : i /= j => files[c][i].id /= files[c][j].id
    /\ \A i \in DOMAIN files[c] :
         \E n \in 1 .. nextId - 1 :
           /\ files[c][i].id = generateId(n)
           /\ files[c][i].createdAt = toISOString(n)

\* C12: no file is ever in a state other than a complete document array, and
\* no readCollection fails to parse what it read.
C12_WriteAtomic ==
  /\ \A c \in allowed : fstate[c] = "ok"
  /\ \A r \in Req : req[r].caught /= SyntaxError

\* C13: once a DELETE of an id has been answered 200, no document with that
\* id is stored in the collection.
C13_DeletedStaysDeleted ==
  \A r \in Req :
    (req[r].handler = "delete" /\ req[r].pc = "done" /\ req[r].status = 200)
      => \A i \in DOMAIN files[req[r].collection] :
           files[req[r].collection][i].id /= req[r].id

\* The operations that address a document by id.
ById == {"patch", "delete", "toggleFollow",
         "adApproval", "userApproval", "userBlock", "resolveReport"}

Stored(docs, id) == \E i \in DOMAIN docs : docs[i].id = id

\* An id the request addresses is not in docs.
Missing(q, docs) ==
  IF q.handler = "toggleFollow"
  THEN \/ ~Stored(docs, Field(q.body, "followerId"))
       \/ ~Stored(docs, Field(q.body, "followingId"))
  ELSE ~Stored(docs, q.id)

\* C14: when the read of a patch, delete, toggle-follow or moderation request
\* resolves to a collection that lacks an id the request addresses, the
\* request is answered 404 in the same step, it has written nothing and no
\* file changes.
C14_MissingIdIs404 ==
  [][ \A r \in Req :
        ( /\ req[r].pc = "read" /\ req'[r].pc /= "read"
          /\ req[r].handler \in ById
          /\ ~readThrows(firstRead(req[r].handler, req[r].collection))
          /\ Missing(req[r], files[firstRead(req[r].handler, req[r].collection)]) )
        => /\ req'[r].pc = "done" /\ req'[r].status = 404
           /\ req'[r].wrote = {}
           /\ files' = files /\ fstate' = fstate ]_vars

\* A toggle-follow with the follower stored and the followed user missing has
\* been answered 404 and the stored follower has no link.
C14_ToggleOneMissing ==
  \E r \in Req :
    /\ req[r].handler = "toggleFollow"
    /\ req[r].pc = "done" /\ req[r].status = 404 /\ req[r].wrote = {}
    /\ Stored(files["users"], Field(req[r].body, "followerId"))
    /\ ~Stored(files["users"], Field(req[r].body, "followingId"))
    /\ \A i \in DOMAIN files["users"] : ~Has(files["users"][i], "following")

\* The generic operations, which take the collection from the path.
Generic == {"list", "get", "insert", "patch", "delete"}

\* C15: a generic request that names a collection outside the five is, from
\* its arrival on, answered 400 'Invalid collection'; it never waits for a
\* read or a write and has written nothing.
C15_InvalidCollectionRejected ==
  \A r \in Req :
    (Arrived(r) /\ req[r].handler \in Generic /\ req[r].collection \notin allowed)
      => /\ req[r].pc = "done" /\ req[r].status = 400
         /\ req[r].caught = "Invalid collection"
         /\ req[r].wrote = {}
         /\ DOMAIN files = allowed

\* An insert and a patch into the collection 'other' have been answered 400
\* and every file is as it was on start.
C15_OtherRejected ==
  /\ \A h \in {"insert", "patch"} : \E r \in Req :
       /\ req[r].handler = h /\ req[r].collection = "other"
       /\ req[r].pc = "done" /\ req[r].status = 400
  /\ \A c \in allowed : files[c] = <<>> /\ fstate[c] = "ok"

\* C16: a request whose storage read failed to parse is answered 500.
C16_StorageFailureIs500 ==
  \A r \in Req : req[r].caught = SyntaxError => req[r].status = 500

\* A patch that takes the regular update.
IsMerge(q) == q.handler = "patch" /\ ~likeBranch(q.collection, q.body)

\* The first document of docs with the id.
Target(docs, id) ==
  CHOOSE i \in DOMAIN docs :
    docs[i].id = id /\ \A j \in 1 .. i - 1 : docs[j].id /= id

\* new is old with the fields of body merged into the first document with
\* the id: same length and order, the other documents equal, the body's
\* fields with the body's values, the document's other fields as they were.
MergedInto(old, new, id, body) ==
  LET i == Target(old, id)
  IN  /\ Len(new) = Len(old)
      /\ \A j \in DOMAIN old \ {i} : new[j] = old[j]
      /\ DOMAIN new[i] = DOMAIN old[i] \cup DOMAIN body
      /\ \A f \in DOMAIN body : new[i][f] = body[f]
      /\ \A f \in DOMAIN old[i] \ DOMAIN body : new[i][f] = old[i][f]

\* C17: a regular patch of a stored id is a shallow merge.  What it prepares
\* from the collection it read is that collection with the body's fields
\* merged into the document and nothing else changed; its write stores that
\* sequence in its collection (when the write is not mixed with another
\* write of the file), changes no other collection, and the collection is the
\* only one the request has written.
C17_PatchIsShallowMerge ==
  [][ \A r \in Req :
        IsMerge(req[r]) =>
          /\ (req[r].pc = "read" /\ req'[r].pc = "write")
               => MergedInto(files[req[r].collection], req'[r].docs,
                             req[r].id, req[r].body)
          /\ (req[r].pc = "write" /\ req'[r].pc /= "write")
               => /\ req[r].opened
                  /\ req'[r].pc = "done" /\ req'[r].status = 200
                  /\ req'[r].wrote = {req[r].collection}
                  /\ fstate'[req[r].collection] = "ok"
                       => files'[req[r].collection] = req[r].docs
                  /\ \A c \in allowed \ {req[r].collection} :
                       files'[c] = files[c] /\ fstate'[c] = fstate[c] ]_vars

\* A regular patch of the first of two stored posts has completed: its text
\* is the body's, its id and createdAt and the second post are as inserted.
C17_PatchMerged ==
  \E r \in Req :
    /\ IsMerge(req[r]) /\ req[r].pc = "done" /\ req[r].status = 200
    /\ req[r].collection = "posts" /\ req[r].body = [text |-> "d"]
    /\ files["posts"] = << [id |-> "id1", createdAt |-> 1, text |-> "d"],
                           [id |-> "id2", createdAt |-> 2, text |-> "b"] >>

\* In users the link from followerId to followingId is recorded on both sides
\* or on neither.
Linked(users, followerId, followingId) ==
  Includes(OrEmpty(users[Target(users, followerId)], "following"), followingId)
    <=> Includes(OrEmpty(users[Target(users, followingId)], "followers"), followerId)

\* C19: a toggle-follow that read a users collection holding both ids, in any
\* state of the link, prepares a collection in which the link is on both
\* sides or on neither; it stores that collection by one write of users,
\* after which the stored link is on both sides or on neither, and it awaits
\* no other write.
C19_TogglePostcondition ==
  [][ \A r \in Req :
        IsToggle(r) =>
          /\ req'[r].pc \in {"read", "write", "done"}
          /\ (req[r].pc = "read" /\ req'[r].pc = "write")
               => Linked(req'[r].docs, req[r].body.followerId, req[r].body.followingId)
          /\ (req[r].pc = "write" /\ req'[r].pc /= "write")
               => /\ req[r].wrote = {}
                  /\ req'[r].pc = "done" /\ req'[r].status = 200
                  /\ req'[r].wrote = {"users"}
                  /\ fstate'["users"] = "ok"
                       => /\ files'["users"] = req[r].docs
                          /\ Linked(files'["users"], req[r].body.followerId,
                                    req[r].body.followingId) ]_vars

\* A toggle-follow of id1 -> id2 has completed on users stored with id2 in
\* id1's following and id2 without followers: the link is gone on both sides.
C19_OneSidedToggled ==
  \E r \in Req :
    /\ IsToggle(r) /\ req[r].pc = "done" /\ req[r].status = 200
    /\ \A q \in Req \ {r} :
         /\ req[q].handler = "insert" /\ req[q].pc = "done"
         /\ req[q].body = [following |-> <<"id2">>]
    /\ files["users"] =
         << [id |-> "id1", createdAt |-> 1, following |-> <<>>],
            [id |-> "id2", createdAt |-> 2, following |-> <<"id2">>, followers |-> <<>>] >>

\* A stored document has the filter's field with a value equal (==) to the
\* filter's value.
Passes(doc, query) ==
  \A key \in DOMAIN query : Has(doc, key) /\ LooseEquals(doc, key, query[key])

\* C18: the list a GET /:collection sends is the subsequence, in storage
\* order, of the documents stored when its read resolves that have every
\* filter field with a value equal to the filter's; without filters it is the
\* whole collection.
C18_ListIsFiltered ==
  [][ \A r \in Req :
        ( /\ req[r].handler = "list" /\ req[r].pc = "read"
          /\ req'[r].pc /= "read"
          /\ ~readThrows(req[r].collection) )
        => /\ req'[r].pc = "done" /\ req'[r].status = 200
           /\ req'[r].result =
                SelectSeq(files[req[r].collection],
                          LAMBDA doc : Passes(doc, req[r].query))
           /\ req[r].query = NoFields => req'[r].result = files[req[r].collection]
           /\ \A i \in DOMAIN req'[r].result : \A key \in DOMAIN req[r].query :
                Has(req'[r].result[i], key)
           /\ files' = files ]_vars

\* A list with the filters likesCount=0 and text=a has sent one of the two
\* stored posts, both with text a; the other lacks likesCount.
C18_TwoFiltersOneMatch ==
  \E r \in Req :
    /\ req[r].handler = "list" /\ req[r].pc = "done"
    /\ DOMAIN req[r].query = {"likesCount", "text"}
    /\ Len(files["posts"]) = 2
    /\ \E i \in DOMAIN files["posts"] : ~Has(files["posts"][i], "likesCount")
    /\ \A i \in DOMAIN files["posts"] : files["posts"][i].text = "a"
    /\ Len(req[r].result) = 1 /\ req[r].result[1].likesCount = 0

====
